---- MODULE Spec2Model ----
(***************************************************************************)
(* Painterly PBR exporter (plugins/python/painterly_pbr_exporter).         *)
(* A state-machine model of PainterlyPbrExporterExtension._export_document *)
(* and the functions it calls: the layer-tree walk that finds material     *)
(* groups, the channel resolver, the per-channel renderer with its         *)
(* temporary documents, the normal bake and the ORM pack.                  *)
(***************************************************************************)
EXTENDS Integers, Sequences, FiniteSets, TLC

(***************************************************************************)
(* Bounds of the layer trees the model explores.                           *)
(***************************************************************************)
\* nodes of a generic layer tree (root included)
MaxNodes == 3
\* material groups under the root of a multi-group document
MaxGroups == 2
\* direct children of the group of a resolver document
MaxChildren == 2

\* the longest group name of the runs that follow names to file names
MaxNameLen == 3

\* the widest and the highest image of the runs that follow pixels
MaxWidth == 4

MaxHeight == 2

VARIABLES
    doc,               \* options.document: node id -> layer node (id 0 is rootNode())
    options,           \* ExportOptions
    pc,                \* position in _export_document / _export_material_group
    stack,             \* _find_material_groups: stack
    result,            \* _find_material_groups: result
    visits,            \* node id -> number of times the walk popped it
    groups,            \* _export_document: groups
    gi,                \* _export_document: index of the group being exported
    channel_nodes,     \* _export_material_group: channel_nodes
    files,             \* _export_material_group: files
    baked_normals,     \* _export_material_group: baked_normals
    paths,             \* _export_material_group: height_path, normal_path, ...
    call,              \* the _export_channel_layer call in progress
    manifest_entries,  \* _export_document: manifest_entries
    entry_group,       \* entry_group[i]: the group manifest_entries[i] was returned for
    temp_docs,         \* every temporary document created by app.createDocument
    disk,              \* files on disk: path -> what was written
    hist,              \* what happened to each group (set of event records)
    raised,            \* an exception escaped _export_document
    manifest_text,     \* the lines _write_manifest wrote to material.yaml
    images             \* path -> the pixels of the image file, where they are followed

vars == <<doc, options, pc, stack, result, visits, groups, gi, channel_nodes,
          files, baked_normals, paths, call, manifest_entries, entry_group,
          temp_docs, disk, hist, raised, manifest_text, images>>

(***************************************************************************)
(* Python values                                                           *)
(***************************************************************************)
\* None, as a property value or a path
PyNone == "<None>"
PyFalse == "<False>"
PyTrue == "<True>"

\* bool(v) of a property value
Truthy(v) == v \notin {PyNone, PyFalse, ""}

\* str(v) of a property value
PyStr(v) == IF v = PyTrue THEN "True" ELSE IF v = PyFalse THEN "False" ELSE v

\* a dict, in insertion order: a sequence of [key, value] records
DictHas(d, k) == \E i \in 1..Len(d) : d[i].key = k

\* d.get(k), with `none` standing for None
DictGet(d, k, none) ==
    IF DictHas(d, k)
    THEN d[CHOOSE i \in 1..Len(d) : d[i].key = k].value
    ELSE none

\* an assignment that puts a new key in front of the others
DictSetFront(d, k, v) ==
    IF DictHas(d, k)
    THEN [i \in 1..Len(d) |-> IF d[i].key = k THEN [key |-> k, value |-> v] ELSE d[i]]
    ELSE <<[key |-> k, value |-> v]>> \o d

DictSet(d, k, v) ==
    IF DictHas(d, k)
    THEN [i \in 1..Len(d) |-> IF d[i].key = k THEN [key |-> k, value |-> v] ELSE d[i]]
    ELSE Append(d, [key |-> k, value |-> v])

DictKeys(d) == {d[i].key : i \in 1..Len(d)}

(***************************************************************************)
(* Layer nodes                                                             *)
(***************************************************************************)
RootId == 0

\* None where a node is expected
NoNode == -1

ChannelOrder == <<"BaseColor", "Height", "Normal", "Roughness", "Metallic", "Occlusion">>

Channels == {ChannelOrder[i] : i \in 1..Len(ChannelOrder)}

MkNode(name, type, mg, mc, vis, kids) ==
    [name |-> name, type |-> type, materialGroup |-> mg, materialChannel |-> mc,
     visible |-> vis, colorDepth |-> "U8", children |-> kids]

\* node.property(key)
Property(node, key) ==
    IF key = "materialGroup" THEN node.materialGroup
    ELSE IF key = "materialChannel" THEN node.materialChannel
    ELSE PyNone

\* the test of line 187
IsMaterialGroupBroken(node) == node.type = "grouplayer"

IsMaterialGroup(node) ==
    node.type = "grouplayer" /\ Truthy(Property(node, "materialGroup"))

(***************************************************************************)
(* Generic layer trees: every shape of at most MaxNodes nodes, every order *)
(* of the siblings, every type and materialGroup value of every node.      *)
(***************************************************************************)
Perms(S) ==
    {s \in [1..Cardinality(S) -> S] : \A i, j \in 1..Cardinality(S) : s[i] = s[j] => i = j}

Parents(n) == {p \in [1..(n - 1) -> 0..(n - 1)] : \A i \in 1..(n - 1) : p[i] < i}

KidsOf(n, p, k) == {i \in 1..(n - 1) : p[i] = k}

ChildOrders(n, p) ==
    LET orders == [k \in 0..(n - 1) |-> Perms(KidsOf(n, p, k))]
    IN {f \in [0..(n - 1) -> UNION {orders[k] : k \in 0..(n - 1)}] :
           \A k \in 0..(n - 1) : f[k] \in orders[k]}

NodeTypes == {"grouplayer", "paintlayer"}

GroupMarks == {PyNone, PyFalse, PyTrue}

TreeAttrs == [type : NodeTypes, mg : GroupMarks]

NodeName(i) == IF i = RootId THEN <<"r">> ELSE <<"w", "d">>

\* the tree of n nodes with the children ch[i] and the attributes a[i]
MkTree(n, ch, a) ==
    [i \in 0..(n - 1) |-> MkNode(NodeName(i), a[i].type, a[i].mg, PyNone, TRUE, ch[i])]

(***************************************************************************)
(* Names, slugs and paths. A name is a sequence of characters; a file name *)
(* is the sequence of the pieces the f-strings join.                       *)
(***************************************************************************)
AlnumChars == {"w", "d", "r", "P", "M", "a", "t", "e", "i", "l", "7"}

\* c.isalnum()
IsAlnum(c) == c \in AlnumChars

\* line 522
SafeChar(c) == IF IsAlnum(c) \/ c \in {"-", "_"} THEN c ELSE "_"

RECURSIVE LStrip(_)
LStrip(s) == IF s # <<>> /\ Head(s) = "_" THEN LStrip(Tail(s)) ELSE s

RECURSIVE RStrip(_)
RStrip(s) == IF s # <<>> /\ s[Len(s)] = "_" THEN RStrip(SubSeq(s, 1, Len(s) - 1)) ELSE s

\* "".join(safe).strip("_")
\* a strip that forgets the trailing underscores
StripLeadingOnly(s) == LStrip(s)

Strip(s) == RStrip(LStrip(s))

MaterialLiteral == <<"M", "a", "t", "e", "r", "i", "a", "l">>

\* _slugify
Slugify(name) ==
    LET safe == [i \in 1..Len(name) |-> SafeChar(name[i])]
    IN IF Strip(safe) = <<>> THEN MaterialLiteral ELSE Strip(safe)

\* None where a path is expected
NonePath == [dir |-> "", name |-> <<>>]

\* os.path.join(options.output_dir, filename)
OutPath(filename) == [dir |-> "out", name |-> filename]

\* tmp_file.name of tempfile.NamedTemporaryFile(suffix=".png", delete=False)
TmpPath == [dir |-> "tmp", name |-> <<"tmp", ".png">>]

\* os.path.basename(path)
Basename(path) == path.name

(***************************************************************************)
(* Documents the export runs on                                            *)
(***************************************************************************)
GroupNames == {<<"w", "d">>, <<"w", " ", "d">>}

LayerStates == {"absent", "hidden", "visible"}

RootNode(kids) == MkNode(<<"r">>, "grouplayer", PyNone, PyNone, TRUE, kids)

\* the ids of the layers of `order` that are not absent, in that order
PresentLayers(order, st, first) ==
    LET ids == [i \in 1..Len(order) |-> first + i]
        Present(id) == st[order[id - first]] # "absent"
    IN SelectSeq(ids, Present)

\* the layers a material group may hold: the code tests `layer and
\* layer.visible()` for every channel alike, so the absent and the hidden
\* layer are both kept for Height, which the bake reads hidden or not, and
\* for Occlusion, and one of the two for the other channels (the groups of
\* MultiDocs have no Normal layer at all)
LayerChoices ==
    {st \in [Channels -> LayerStates] :
       /\ st["BaseColor"] # "absent"
       /\ st["Normal"] # "absent"
       /\ st["Roughness"] # "hidden"
       /\ st["Metallic"] # "absent"}

\* One material group holding a choice of the six channel layers, each
\* visible or hidden.
RichDocs ==
    {[i \in {0, 1} \cup {1 + k : k \in {j \in 1..6 : st[ChannelOrder[j]] # "absent"}} |->
        IF i = 0 THEN RootNode(<<1>>)
        ELSE IF i = 1
        THEN MkNode(<<"w", "d">>, "grouplayer", PyTrue, PyNone, TRUE,
                    PresentLayers(ChannelOrder, st, 1))
        ELSE MkNode(<<ChannelOrder[i - 1]>>, "paintlayer", PyNone, ChannelOrder[i - 1],
                    st[ChannelOrder[i - 1]] = "visible", <<>>)] :
     st \in LayerChoices}

\* Up to MaxGroups material groups under the root, each with an optional,
\* possibly hidden, Height layer; group g is node g, its layer node n + g.
\* The groups are named "wd", the first one "wd" or "w d".
MultiDocsOf(n) ==
    {[i \in (0..n) \cup {n + g : g \in {h \in 1..n : st[h] # "absent"}} |->
        IF i = 0 THEN RootNode([g \in 1..n |-> g])
        ELSE IF i <= n
        THEN MkNode(IF i = 1 THEN nm ELSE <<"w", "d">>, "grouplayer", PyTrue, PyNone, TRUE,
                    IF st[i] # "absent" THEN <<n + i>> ELSE <<>>)
        ELSE MkNode(<<"Height">>, "paintlayer", PyNone, "Height",
                    st[i - n] = "visible", <<>>)] :
     <<st, nm>> \in [1..n -> LayerStates] \X GroupNames}

MultiDocs == UNION {MultiDocsOf(n) : n \in 0..MaxGroups}

\* One material group whose direct children carry any materialChannel value;
\* a child of kind "nested" is an untagged sub-group holding a tagged layer.
ChildKinds == {PyNone, "", "Height", "Normal", "nested"}

ResolverDocsOf(m) ==
    {[i \in (0..(m + 1)) \cup {m + 1 + k : k \in {j \in 1..m : kind[j] = "nested"}} |->
        IF i = 0 THEN RootNode(<<1>>)
        ELSE IF i = 1
        THEN MkNode(<<"!">>, "grouplayer", PyTrue, PyNone, TRUE, [k \in 1..m |-> 1 + k])
        ELSE IF i <= m + 1
        THEN IF kind[i - 1] = "nested"
             THEN MkNode(<<"l">>, "grouplayer", PyNone, PyNone, TRUE, <<m + i>>)
             ELSE MkNode(<<"l">>, "paintlayer", PyNone, kind[i - 1], TRUE, <<>>)
        ELSE MkNode(<<"l">>, "paintlayer", PyNone, "Roughness", TRUE, <<>>)] :
     kind \in [1..m -> ChildKinds]}

ResolverDocs == UNION {ResolverDocsOf(m) : m \in 0..MaxChildren}

(***************************************************************************)
(* ExportOptions                                                           *)
(***************************************************************************)
HEIGHT_FORMATS == {[ext |-> ".png", depth |-> "U16"], [ext |-> ".exr", depth |-> "F16"]}

ROUGHNESS_DEPTHS == {[ext |-> ".png", depth |-> "U8"], [ext |-> ".png", depth |-> "U16"]}

MkOptions(prefix, flip, bake, pack, hf, rf) ==
    [prefix |-> prefix, flip_green |-> flip, bake_normals |-> bake, pack_orm |-> pack,
     height_extension |-> hf.ext, height_depth |-> hf.depth,
     roughness_extension |-> rf.ext, roughness_depth |-> rf.depth]

\* what the dialog is left at: the first entry of both combo boxes and no
\* prefix, or the second entry of both and the prefix "P_"
FirstEntries ==
    [prefix |-> <<>>, hf |-> [ext |-> ".png", depth |-> "U16"],
     rf |-> [ext |-> ".png", depth |-> "U8"]]

SecondEntries ==
    [prefix |-> <<"P", "_">>, hf |-> [ext |-> ".exr", depth |-> "F16"],
     rf |-> [ext |-> ".png", depth |-> "U16"]]

\* the three check boxes, any way
OptionsWith(entries) ==
    {MkOptions(entries.prefix, flip, bake, pack, entries.hf, entries.rf) :
     <<flip, bake, pack>> \in BOOLEAN \X BOOLEAN \X BOOLEAN}

\* no group of MultiDocs or ResolverDocs has a Roughness layer among its
\* direct children, so pack_orm decides nothing in them
WithoutPack(entries) == {o \in OptionsWith(entries) : ~o.pack_orm}

\* no group of MultiDocs has a Normal layer, so flip_green decides no more
\* in them than the bake of RichDocs shows
WithoutFlip(entries) == {o \in WithoutPack(entries) : ~o.flip_green}

\* the documents and options of the export runs
Inputs ==
    (RichDocs \X OptionsWith(SecondEntries))
    \cup (MultiDocs \X WithoutFlip(FirstEntries))
    \cup (ResolverDocs \X (WithoutPack(FirstEntries) \cup WithoutPack(SecondEntries)))

DefaultOptions ==
    MkOptions(<<>>, FALSE, FALSE, FALSE,
              [ext |-> ".png", depth |-> "U16"], [ext |-> ".png", depth |-> "U8"])

(***************************************************************************)
(* _find_material_groups, one loop iteration per step                      *)
(***************************************************************************)
\* no _export_channel_layer call in progress
NoCall ==
    [active |-> FALSE, phase |-> "", layer |-> NoNode, channel_name |-> "",
     extension |-> "", forced_depth |-> "", override_path |-> NonePath,
     depth |-> "", whole |-> "", alone |-> "", result |-> NonePath]

NoPaths ==
    [base_path |-> NonePath, height_path |-> NonePath, normal_path |-> NonePath,
     roughness_path |-> NonePath, metallic_path |-> NonePath, occlusion_path |-> NonePath]

InitWalk(d, o) ==
    /\ doc = d
    /\ options = o
    /\ pc = "find"
    /\ stack = <<RootId>>
    /\ result = <<>>
    /\ visits = [i \in DOMAIN d |-> 0]
    /\ groups = <<>>
    /\ gi = 0
    /\ channel_nodes = <<>>
    /\ files = <<>>
    /\ baked_normals = FALSE
    /\ paths = NoPaths
    /\ call = NoCall
    /\ manifest_entries = <<>>
    /\ entry_group = <<>>
    /\ temp_docs = <<>>
    /\ disk = {}
    /\ hist = {}
    /\ raised = FALSE
    /\ manifest_text = <<>>
    /\ images = <<>>

\* lines 185-190: pop, test, push the children
FindPop ==
    /\ pc = "find"
    /\ stack # <<>>
    /\ LET current == stack[Len(stack)]
       IN /\ result' = IF IsMaterialGroup(doc[current])
                       THEN Append(result, current)
                       ELSE result
          /\ stack' = SubSeq(stack, 1, Len(stack) - 1) \o doc[current].children
          /\ visits' = [visits EXCEPT ![current] = @ + 1]
    /\ UNCHANGED <<manifest_text, images, doc, options, pc, groups, gi, channel_nodes, files, baked_normals,
                   paths, call, manifest_entries, entry_group, temp_docs, disk, hist, raised>>

\* line 191, and lines 171-175 of the caller
FindReturn ==
    /\ pc = "find"
    /\ stack = <<>>
    /\ groups' = result
    /\ gi' = 1
    /\ pc' = IF result = <<>> THEN "done" ELSE "group"
    /\ UNCHANGED <<manifest_text, images, doc, options, stack, result, visits, channel_nodes, files,
                   baked_normals, paths, call, manifest_entries, entry_group, temp_docs, disk,
                   hist, raised>>

InitFind ==
    \E n \in 1..MaxNodes :
      \E p \in Parents(n) :
        \E ch \in ChildOrders(n, p) :
          \E a \in [0..(n - 1) -> TreeAttrs] :
            InitWalk(MkTree(n, ch, a), DefaultOptions)

NextFind == FindPop \/ FindReturn

SpecFind == InitFind /\ [][NextFind]_vars

\* the walk is a loop of one thread: an iteration that can run does run
SpecFindFair == SpecFind /\ WF_vars(NextFind)

(***************************************************************************)
(* _collect_channel_nodes                                                  *)
(***************************************************************************)
\* line 311: if channel_id
TaggedChannel(channel_id) == Truthy(channel_id)

\* line 312, a resolver that keeps the first child of a channel
AssignFirst(mapping, channel_id, child) ==
    IF DictHas(mapping, PyStr(channel_id)) THEN mapping
    ELSE DictSet(mapping, PyStr(channel_id), child)

\* line 312: mapping[str(channel_id)] = child
Assign(mapping, channel_id, child) == DictSet(mapping, PyStr(channel_id), child)

RECURSIVE CollectFrom(_, _)
CollectFrom(kids, mapping) ==
    IF kids = <<>> THEN mapping
    ELSE LET child == Head(kids)
             channel_id == Property(doc[child], "materialChannel")
         IN CollectFrom(Tail(kids),
                        IF TaggedChannel(channel_id)
                        THEN Assign(mapping, channel_id, child)
                        ELSE mapping)

\* a resolver that also looks into the children of the children
RECURSIVE Descendants(_)
Descendants(kids) ==
    IF kids = <<>> THEN <<>>
    ELSE <<Head(kids)>> \o Descendants(doc[Head(kids)].children) \o Descendants(Tail(kids))

CollectChannelNodesDeep(group) == CollectFrom(Descendants(doc[group].children), <<>>)

\* lines 308-313
CollectChannelNodes(group) == CollectFrom(doc[group].children, <<>>)

(***************************************************************************)
(* _export_document and _export_material_group                             *)
(***************************************************************************)
\* the group being exported
Group == groups[gi]

\* line 198
GroupSlug == Slugify(doc[Group].name)

\* line 199
BaseName == IF options.prefix # <<>> THEN options.prefix \o GroupSlug ELSE GroupSlug

Event(ev, channel, layer, path) ==
    [ev |-> ev, group |-> Group, channel |-> channel, layer |-> layer, path |-> path]

\* the extension and forced_depth arguments of lines 207-293
Extension(channel) ==
    CASE channel = "BaseColor" -> ".png"
      [] channel = "Height" -> options.height_extension
      [] channel = "Normal" -> ".png"
      [] OTHER -> options.roughness_extension

ForcedDepth(channel) ==
    CASE channel = "BaseColor" -> "U8"
      [] channel = "Height" -> options.height_depth
      [] channel = "Normal" -> "U8"
      [] OTHER -> options.roughness_depth

NextStage(channel) ==
    CASE channel = "BaseColor" -> "Height"
      [] channel = "Height" -> "Normal"
      [] channel = "Normal" -> "Roughness"
      [] channel = "Roughness" -> "Metallic"
      [] channel = "Metallic" -> "Occlusion"
      [] channel = "Occlusion" -> "PackOrm"

PathField(channel) ==
    CASE channel = "BaseColor" -> "base_path"
      [] channel = "Height" -> "height_path"
      [] channel = "Normal" -> "normal_path"
      [] channel = "Roughness" -> "roughness_path"
      [] channel = "Metallic" -> "metallic_path"
      [] channel = "Occlusion" -> "occlusion_path"

\* lines 206, 221, 236, 256, 271, 286: layer and layer.visible()
ShouldRender(layer) == layer # NoNode /\ doc[layer].visible

\* a bake that does not ask whether bake_normals is set
ShouldBakeUnasked(normal_layer, height_layer) ==
    ~ShouldRender(normal_layer) /\ height_layer # NoNode

\* lines 236 and 247: the elif branch is taken
ShouldBake(normal_layer, height_layer) ==
    /\ ~ShouldRender(normal_layer)
    /\ options.bake_normals
    /\ height_layer # NoNode

\* a pack that does not wait for the metallic image
ShouldPackOrmRoughnessOnly ==
    options.pack_orm /\ paths.roughness_path # NonePath

\* line 283
ShouldPackOrm ==
    /\ options.pack_orm
    /\ paths.roughness_path # NonePath
    /\ paths.metallic_path # NonePath

\* the call of _export_channel_layer
NewCall(layer, channel, extension, forced_depth, override_path) ==
    [active |-> TRUE, phase |-> "create", layer |-> layer, channel_name |-> channel,
     extension |-> extension, forced_depth |-> forced_depth,
     override_path |-> override_path, depth |-> "", whole |-> "", alone |-> "",
     result |-> NonePath]

\* files on disk: a set of records, one per path
DiskHas(path) == \E f \in disk : f.path = path

DiskWrite(d, path, src, flips) ==
    {f \in d : f.path # path} \cup {[path |-> path, src |-> src, green_flips |-> flips]}

DiskRemove(d, path) == {f \in d : f.path # path}

\* line 195: if not channel_nodes
GroupIsEmpty(mapping) == mapping = <<>>

\* lines 176-177 and 194-201
EnterMaterialGroup ==
    /\ pc = "group"
    /\ gi <= Len(groups)
    /\ LET mapping == CollectChannelNodes(Group)
       IN /\ channel_nodes' = mapping
          /\ IF GroupIsEmpty(mapping)
             THEN /\ gi' = gi + 1
                  /\ hist' = hist \cup {Event("no_channels", "", NoNode, NonePath)}
                  /\ UNCHANGED <<pc, files, baked_normals, paths>>
             ELSE /\ pc' = "BaseColor"
                  /\ files' = <<>>
                  /\ baked_normals' = FALSE
                  /\ paths' = NoPaths
                  /\ UNCHANGED <<gi, hist>>
    /\ UNCHANGED <<manifest_text, images, doc, options, stack, result, visits, groups, call,
                   manifest_entries, entry_group, temp_docs, disk, raised>>

\* line 180
ReturnEntries ==
    /\ pc = "group"
    /\ gi > Len(groups)
    /\ pc' = "done"
    /\ UNCHANGED <<manifest_text, images, doc, options, stack, result, visits, groups, gi, channel_nodes,
                   files, baked_normals, paths, call, manifest_entries, entry_group, temp_docs,
                   disk, hist, raised>>

\* lines 204-214, 219-229, 254-264, 269-279: the layer is rendered or skipped
BeginChannel(channel) ==
    /\ pc = channel
    /\ ~call.active
    /\ LET layer == DictGet(channel_nodes, channel, NoNode)
       IN IF ShouldRender(layer)
          THEN /\ call' = NewCall(layer, channel, Extension(channel),
                                  ForcedDepth(channel), NonePath)
               /\ hist' = hist \cup {Event("render", channel, layer, NonePath)}
               /\ UNCHANGED pc
          ELSE /\ pc' = NextStage(channel)
               /\ UNCHANGED <<call, hist>>
    /\ UNCHANGED <<manifest_text, images, doc, options, stack, result, visits, groups, gi, channel_nodes,
                   files, baked_normals, paths, manifest_entries, entry_group, temp_docs, disk,
                   raised>>

\* a caller that records the channel although the export failed
RecordFileAlways(d, channel, path) == DictSet(d, channel, Basename(path))

\* a caller with the test of the path turned round
RecordFileInverted(d, channel, path) ==
    IF path = NonePath THEN DictSet(d, channel, Basename(path)) ELSE d

\* lines 215-216, 230-231, 265-266, 280-281, 295-296
RecordFile(d, channel, path) ==
    IF path # NonePath THEN DictSet(d, channel, Basename(path)) ELSE d

\* the call returned: the path is kept and the file recorded
ReturnChannel(channel) ==
    /\ pc = channel
    /\ call.active
    /\ call.phase = "returned"
    /\ paths' = [paths EXCEPT ![PathField(channel)] = call.result]
    /\ files' = RecordFile(files, channel, call.result)
    /\ call' = NoCall
    /\ pc' = NextStage(channel)
    /\ UNCHANGED <<manifest_text, images, doc, options, stack, result, visits, groups, gi, channel_nodes,
                   baked_normals, manifest_entries, entry_group, temp_docs, disk, hist, raised>>

BaseColorStage == BeginChannel("BaseColor")

BaseColorReturn == ReturnChannel("BaseColor")

HeightStage == BeginChannel("Height")

HeightReturn == ReturnChannel("Height")

RoughnessStage == BeginChannel("Roughness")

RoughnessReturn == ReturnChannel("Roughness")

MetallicStage == BeginChannel("Metallic")

MetallicReturn == ReturnChannel("Metallic")

\* lines 234-248: the Normal layer is rendered, or the bake starts (lines
\* 401-414: the temporary file is made and the height layer rendered into it)
NormalStage ==
    /\ pc = "Normal"
    /\ ~call.active
    /\ LET normal_layer == DictGet(channel_nodes, "Normal", NoNode)
           height_layer == DictGet(channel_nodes, "Height", NoNode)
       IN IF ShouldRender(normal_layer)
          THEN /\ call' = NewCall(normal_layer, "Normal", ".png", "U8", NonePath)
               /\ hist' = hist \cup {Event("render", "Normal", normal_layer, NonePath)}
               /\ UNCHANGED <<pc, disk>>
          ELSE IF ShouldBake(normal_layer, height_layer)
          THEN /\ call' = NewCall(height_layer, "Height", ".png", "U16", TmpPath)
               /\ hist' = hist \cup {Event("bake", "Normal", height_layer, NonePath),
                                     Event("render", "Height", height_layer, TmpPath)}
               /\ disk' = DiskWrite(disk, TmpPath, "tmp", 0)
               /\ pc' = "Bake"
          ELSE /\ pc' = "Roughness"
               /\ UNCHANGED <<call, hist, disk>>
    /\ UNCHANGED <<manifest_text, images, doc, options, stack, result, visits, groups, gi, channel_nodes,
                   files, baked_normals, paths, manifest_entries, entry_group, temp_docs, raised>>

\* lines 245-246 and 250-251, with _flip_normal_green (lines 376-391)
NormalReturn ==
    /\ pc = "Normal"
    /\ call.active
    /\ call.phase = "returned"
    /\ LET normal_path == call.result
       IN /\ paths' = [paths EXCEPT !.normal_path = normal_path]
          /\ files' = RecordFile(files, "Normal", normal_path)
          /\ IF normal_path # NonePath /\ options.flip_green
             THEN \E isNull \in BOOLEAN :
                    IF isNull
                    THEN UNCHANGED <<disk, hist>>
                    ELSE /\ disk' = {IF f.path = normal_path
                                     THEN [f EXCEPT !.green_flips = @ + 1]
                                     ELSE f : f \in disk}
                         /\ hist' = hist \cup {Event("flip", "Normal", call.layer, normal_path)}
             ELSE UNCHANGED <<disk, hist>>
    /\ call' = NoCall
    /\ pc' = "Roughness"
    /\ UNCHANGED <<manifest_text, images, doc, options, stack, result, visits, groups, gi, channel_nodes,
                   baked_normals, manifest_entries, entry_group, temp_docs, raised>>

\* an exception leaves the call and every caller up to _export_document; the
\* finally clause of the bake (lines 455-459) removes its temporary file
Escape ==
    /\ raised' = TRUE
    /\ pc' = "aborted"
    /\ call' = NoCall
    /\ disk' = IF call.override_path # NonePath THEN DiskRemove(disk, TmpPath) ELSE disk
    /\ hist' = hist \cup {Event("exception", call.channel_name, call.layer, NonePath)}

\* what the bake does with the path the render returned: nothing when there
\* is none (line 415); else the image is unreadable (line 419), numpy is
\* missing (line 429), reshape or gradient raises on the samples (lines
\* 433-434), or the normal map is computed and saved, the result of the save
\* not being looked at (line 453)
BakeOutcomes(temp_height_path) ==
    IF temp_height_path = NonePath THEN {"norender"}
    ELSE {"ok", "null", "nonumpy", "savefail", "raise"}

\* lines 415-459 and 249-251
BakeReturn ==
    /\ pc = "Bake"
    /\ call.active
    /\ call.phase = "returned"
    /\ \E outcome \in BakeOutcomes(call.result) :
         LET output_path == OutPath(BaseName \o <<"_", "Normal", ".png">>)
             normal_path == IF outcome \in {"ok", "savefail"} THEN output_path ELSE NonePath
         IN IF outcome = "raise"
            THEN /\ Escape
                 /\ UNCHANGED <<paths, baked_normals, files>>
            ELSE /\ paths' = [paths EXCEPT !.normal_path = normal_path]
                 /\ baked_normals' = (normal_path # NonePath)
                 /\ files' = RecordFile(files, "Normal", normal_path)
                 /\ disk' = DiskRemove(IF outcome = "ok"
                                       THEN DiskWrite(disk, output_path, "bake",
                                                      IF options.flip_green THEN 1 ELSE 0)
                                       ELSE disk, TmpPath)
                 /\ hist' = hist
                      \cup (IF normal_path # NonePath
                            THEN {Event("baked", "Normal", call.layer, output_path)}
                            ELSE {})
                      \cup (IF outcome = "ok"
                            THEN {Event("write", "Normal", call.layer, output_path)}
                            ELSE {})
                 /\ call' = NoCall
                 /\ pc' = "Roughness"
                 /\ UNCHANGED raised
    /\ UNCHANGED <<manifest_text, images, doc, options, stack, result, visits, groups, gi, channel_nodes,
                   manifest_entries, entry_group, temp_docs>>

\* lines 283-294: the pack is decided, and the Occlusion layer rendered for it
OcclusionStage ==
    /\ pc = "Occlusion"
    /\ ~call.active
    /\ LET occlusion_layer == DictGet(channel_nodes, "Occlusion", NoNode)
       IN IF ~ShouldPackOrm
          THEN /\ pc' = "Finish"
               /\ UNCHANGED <<call, hist>>
          ELSE IF ShouldRender(occlusion_layer)
          THEN /\ call' = NewCall(occlusion_layer, "Occlusion", Extension("Occlusion"),
                                  ForcedDepth("Occlusion"), NonePath)
               /\ hist' = hist \cup {Event("render", "Occlusion", occlusion_layer, NonePath)}
               /\ UNCHANGED pc
          ELSE /\ pc' = "PackOrm"
               /\ UNCHANGED <<call, hist>>
    /\ UNCHANGED <<manifest_text, images, doc, options, stack, result, visits, groups, gi, channel_nodes,
                   files, baked_normals, paths, manifest_entries, entry_group, temp_docs, disk,
                   raised>>

OcclusionReturn == ReturnChannel("Occlusion")

\* what _pack_orm_texture does: an input is unreadable (line 470), a slice
\* assignment raises on the bytes of an image (lines 485-488), the packed
\* image is saved, or the save fails (line 492)
PackOutcomes == {"ok", "unreadable", "savefail", "raise"}

\* lines 297-300, with _pack_orm_texture (lines 461-492)
PackOrm ==
    /\ pc = "PackOrm"
    /\ ~call.active
    /\ \E outcome \in PackOutcomes :
         LET orm_filename == BaseName \o <<"_", "ORM", ".png">>
             orm_path == OutPath(orm_filename)
         IN IF outcome = "raise"
            THEN /\ Escape
                 /\ UNCHANGED files
            ELSE /\ files' = IF outcome = "ok" THEN DictSet(files, "ORM", orm_filename)
                             ELSE files
                 /\ disk' = IF outcome = "ok" THEN DiskWrite(disk, orm_path, "ORM", 0)
                            ELSE disk
                 /\ hist' = hist \cup {Event("pack", "ORM", NoNode, NonePath)}
                                 \cup (IF outcome = "unreadable"
                                       THEN {Event("pack_unreadable", "ORM", NoNode, NonePath)}
                                       ELSE {})
                                 \cup (IF outcome = "savefail"
                                       THEN {Event("pack_savefail", "ORM", NoNode, orm_path)}
                                       ELSE {})
                                 \cup (IF outcome = "ok"
                                       THEN {Event("write", "ORM", NoNode, orm_path)}
                                       ELSE {})
                 /\ pc' = "Finish"
                 /\ UNCHANGED <<call, raised>>
    /\ UNCHANGED <<manifest_text, images, doc, options, stack, result, visits, groups, gi, channel_nodes,
                   baked_normals, paths, manifest_entries, entry_group, temp_docs>>

\* an entry for every group, whatever it exported
HasFilesAlways(d) == TRUE

\* line 302: if not files: return None
HasFiles(d) == d # <<>>

\* lines 302-305 and 178-179
FinishMaterialGroup ==
    /\ pc = "Finish"
    /\ IF HasFiles(files)
       THEN /\ manifest_entries' =
                 Append(manifest_entries,
                        [name |-> GroupSlug, files |-> files,
                         baked_normals |-> baked_normals,
                         packed_orm |-> DictHas(files, "ORM")])
            /\ entry_group' = Append(entry_group, Group)
       ELSE UNCHANGED <<manifest_entries, entry_group>>
    /\ hist' = hist \cup {Event("finished", "", NoNode, NonePath)}
    /\ gi' = gi + 1
    /\ pc' = "group"
    /\ UNCHANGED <<manifest_text, images, doc, options, stack, result, visits, groups, channel_nodes, files,
                   baked_normals, paths, call, temp_docs, disk, raised>>

(***************************************************************************)
(* _export_channel_layer                                                   *)
(***************************************************************************)
\* the temporary document of the call in progress
CurrentDoc == Len(temp_docs)

\* lines 326-340: app.createDocument, setBatchmode
CreateDocument ==
    /\ call.active
    /\ call.phase = "create"
    /\ temp_docs' = Append(temp_docs,
                           [name |-> call.channel_name, group |-> Group,
                            layer |-> call.layer, open |-> TRUE, nodes |-> <<>>])
    /\ call' = [call EXCEPT !.phase = "place"]
    /\ UNCHANGED <<manifest_text, images, doc, options, pc, stack, result, visits, groups, gi, channel_nodes,
                   files, baked_normals, paths, manifest_entries, entry_group, disk, hist, raised>>

\* the layer itself in place of a copy of it
SameNode(layer) == [of |-> layer, copy |-> FALSE]

\* line 341: layer.duplicate() is a new node, a copy of the layer
Duplicate(layer) == [of |-> layer, copy |-> TRUE]

\* line 342: addChildNode makes the node a child of the temporary document's
\* root; a node of the source tree would leave its parent for it
AddChildNode(d, node) ==
    IF node.copy THEN d
    ELSE [n \in DOMAIN d |->
            [d[n] EXCEPT !.children = SelectSeq(@, LAMBDA c : c # node.of)]]

\* lines 350 and 355: a conversion that succeeds changes the depth of the
\* node in the temporary document; of a node of the source tree if it is one
SetColorSpace(d, node, target_depth) ==
    IF node.copy THEN d ELSE [d EXCEPT ![node.of].colorDepth = target_depth]

\* lines 341-344: duplicate, addChildNode, refreshProjection, waitForDone
PlaceLayerCopy ==
    /\ call.active
    /\ call.phase = "place"
    /\ \E outcome \in {"ok", "raise"} :
         IF outcome = "ok"
         THEN LET duplicate == Duplicate(call.layer)
              IN /\ temp_docs' = [temp_docs EXCEPT ![CurrentDoc].nodes = <<duplicate>>]
                 /\ doc' = AddChildNode(doc, duplicate)
                 /\ call' = [call EXCEPT !.phase = "convert"]
                 /\ UNCHANGED <<pc, disk, hist, raised>>
         ELSE /\ Escape
              /\ UNCHANGED <<temp_docs, doc>>
    /\ UNCHANGED <<manifest_text, images, options, stack, result, visits, groups, gi,
                   channel_nodes, files, baked_normals, paths, manifest_entries, entry_group>>

\* what a setColorSpace call can do: convert and return True, return False,
\* raise
ConvertOutcomes == {"ok", "false", "raise"}

\* lines 352-356: the duplicate alone is converted when the conversion of the
\* document raised
FallbackAttempted(whole) == whole = "raise"

\* lines 346-358: the document is converted; if that raises, the duplicate is
\* converted; if that raises too, nothing is
ConvertColorSpace ==
    /\ call.active
    /\ call.phase = "convert"
    /\ \E whole \in ConvertOutcomes, alone \in ConvertOutcomes \cup {""} :
         /\ (alone # "") <=> FallbackAttempted(whole)
         /\ call' = [call EXCEPT !.phase = "export",
                                 !.whole = whole,
                                 !.alone = alone,
                                 !.depth = IF whole = "ok" THEN "document"
                                           ELSE IF alone = "ok" THEN "layer"
                                           ELSE "source"]
         /\ doc' = IF whole = "ok" \/ alone = "ok"
                   THEN SetColorSpace(doc, temp_docs[CurrentDoc].nodes[1], call.forced_depth)
                   ELSE doc
    /\ UNCHANGED <<manifest_text, images, options, pc, stack, result, visits, groups, gi,
                   channel_nodes, files, baked_normals, paths, manifest_entries, entry_group,
                   temp_docs, disk, hist, raised>>

\* lines 360-366
ChannelPath ==
    IF call.override_path # NonePath
    THEN call.override_path
    ELSE LET filename == Slugify(doc[Group].name) \o <<"_", call.channel_name, call.extension>>
         IN OutPath(IF options.prefix # <<>> THEN options.prefix \o filename ELSE filename)

\* what exportImage can do: return True, return False, raise
ExportOutcomes == {"ok", "fail", "raise"}

\* a temporary document that is never closed
CloseNever(outcome) == FALSE

\* line 371: temp_doc.close() is reached
CloseAfterExport(outcome) == outcome \in {"ok", "fail"}

\* lines 368-374: exportImage, waitForDone, close, return
ExportImage ==
    /\ call.active
    /\ call.phase = "export"
    /\ \E outcome \in ExportOutcomes :
         LET path == ChannelPath
         IN /\ temp_docs' = IF CloseAfterExport(outcome)
                            THEN [temp_docs EXCEPT ![CurrentDoc].open = FALSE]
                            ELSE temp_docs
            /\ IF outcome = "ok"
               THEN /\ call' = [call EXCEPT !.phase = "returned", !.depth = "",
                                            !.whole = "", !.alone = "",
                                            !.result = path]
                    /\ disk' = DiskWrite(disk, path, call.channel_name, 0)
                    /\ hist' = hist \cup {Event("write", call.channel_name, call.layer, path)}
                    /\ UNCHANGED <<pc, raised>>
               ELSE IF outcome = "fail"
               THEN /\ call' = [call EXCEPT !.phase = "returned", !.depth = "",
                                            !.whole = "", !.alone = "",
                                            !.result = NonePath]
                    /\ hist' = hist \cup {Event("export_failed", call.channel_name,
                                                call.layer, path)}
                    /\ UNCHANGED <<pc, disk, raised>>
               ELSE Escape
    /\ UNCHANGED <<manifest_text, images, doc, options, stack, result, visits, groups, gi, channel_nodes,
                   files, baked_normals, paths, manifest_entries, entry_group>>

(***************************************************************************)
(* QImage, as far as _pack_orm_texture and _bake_normals_from_height use   *)
(* it.  The pixels of an image are kept row by row.                        *)
(***************************************************************************)
\* QImage(): the null image, also what QImage(path) is for a file that
\* cannot be read
NullImage == [null |-> TRUE, format |-> "", width |-> 0, height |-> 0, px |-> <<>>]

MkImage(format, width, height, px) ==
    [null |-> FALSE, format |-> format, width |-> width, height |-> height, px |-> px]

\* QImage(path)
QImage(path) == IF path \in DOMAIN images THEN images[path] ELSE NullImage

\* the file at path holds the image
SaveImage(store, path, image) ==
    [q \in DOMAIN store \cup {path} |-> IF q = path THEN image ELSE store[q]]

BytesPerPixel(format) ==
    CASE format = "Grayscale8" -> 1
      [] format = "Grayscale16" -> 2
      [] format = "RGBA8888" -> 4

\* every scanline of a QImage starts on a 32-bit boundary
BytesPerLine(format, width) == ((width * BytesPerPixel(format) + 3) \div 4) * 4

\* image.bits() with setsize(image.byteCount()), read in units of one pixel:
\* the pixels of each scanline, then the padding of the scanline
Bits(image) ==
    LET per_line == BytesPerLine(image.format, image.width) \div BytesPerPixel(image.format)
    IN [i \in 1..(per_line * image.height) |->
          LET x == (i - 1) % per_line
              y == (i - 1) \div per_line
          IN IF x < image.width THEN image.px[y * image.width + x + 1] ELSE 0]

\* image.scaled(width, height): every pixel of the result is taken from the
\* place of the source it falls on (a uniform image stays uniform under
\* every filter)
Scaled(image, width, height) ==
    MkImage(image.format, width, height,
            [i \in 1..(width * height) |->
               LET x == (i - 1) % width
                   y == (i - 1) \div width
               IN image.px[((y * image.height) \div height) * image.width
                           + ((x * image.width) \div width) + 1]])

\* image.convertToFormat of a grayscale image to another grayscale depth
ConvertToFormat(image, format) ==
    IF image.format = format THEN image
    ELSE IF format = "Grayscale8"
    THEN MkImage(format, image.width, image.height,
                 [i \in 1..Len(image.px) |-> image.px[i] \div 257])
    ELSE MkImage(format, image.width, image.height,
                 [i \in 1..Len(image.px) |-> image.px[i] * 257])

\* lines 494-500: _grayscale_bytes
GrayscaleBytes(image, width, height) ==
    LET sized == IF image.width # width \/ image.height # height
                 THEN Scaled(image, width, height)
                 ELSE image
    IN Bits(ConvertToFormat(sized, "Grayscale8"))

(***************************************************************************)
(* _pack_orm_texture on images                                             *)
(***************************************************************************)
\* lines 485-489: data[k::4] = ... needs as many bytes as there are pixels
SlicesFit(r_bytes, g_bytes, b_bytes, a_bytes, size) ==
    /\ Len(r_bytes) = size
    /\ Len(g_bytes) = size
    /\ Len(b_bytes) = size
    /\ Len(a_bytes) = size

\* lines 468-492 with the caller's lines 297-300: the three images are read,
\* brought to the size of the roughness image and packed
PackOrmTexture ==
    /\ pc = "PackOrm"
    /\ ~call.active
    /\ LET orm_filename == BaseName \o <<"_", "ORM", ".png">>
           orm_path == OutPath(orm_filename)
           roughness == QImage(paths.roughness_path)
           metallic == QImage(paths.metallic_path)
           width == roughness.width
           height == roughness.height
           read == IF paths.occlusion_path # NonePath
                   THEN QImage(paths.occlusion_path)
                   ELSE NullImage
           occlusion == IF read.null
                        THEN MkImage("Grayscale8", width, height,
                                     [i \in 1..(width * height) |-> 255])
                        ELSE read
       IN IF roughness.null \/ metallic.null
          THEN /\ pc' = "Finish"
               /\ hist' = hist \cup {Event("pack", "ORM", NoNode, NonePath),
                                     Event("pack_unreadable", "ORM", NoNode, NonePath)}
               /\ UNCHANGED <<images, files, disk, raised, call>>
          ELSE LET r_bytes == GrayscaleBytes(occlusion, width, height)
                   g_bytes == GrayscaleBytes(roughness, width, height)
                   b_bytes == GrayscaleBytes(
                                IF metallic.width # width \/ metallic.height # height
                                THEN Scaled(metallic, width, height)
                                ELSE metallic, width, height)
                   a_bytes == [i \in 1..(width * height) |-> 255]
               IN IF ~SlicesFit(r_bytes, g_bytes, b_bytes, a_bytes, width * height)
                  THEN /\ Escape
                       /\ UNCHANGED <<images, files>>
                  ELSE \E saved \in BOOLEAN :
                         /\ pc' = "Finish"
                         /\ images' =
                              IF saved
                              THEN SaveImage(images, orm_path,
                                     MkImage("RGBA8888", width, height,
                                             [i \in 1..(width * height) |->
                                                <<r_bytes[i], g_bytes[i], b_bytes[i],
                                                  a_bytes[i]>>]))
                              ELSE images
                         /\ files' = IF saved THEN DictSet(files, "ORM", orm_filename)
                                     ELSE files
                         /\ disk' = IF saved THEN DiskWrite(disk, orm_path, "ORM", 0)
                                    ELSE disk
                         /\ hist' = hist \cup
                              {Event("pack", "ORM", NoNode, NonePath),
                               IF saved THEN Event("write", "ORM", NoNode, orm_path)
                               ELSE Event("pack_savefail", "ORM", NoNode, orm_path)}
                         /\ UNCHANGED <<raised, call>>
    /\ UNCHANGED <<manifest_text, doc, options, stack, result, visits, groups, gi,
                   channel_nodes, baked_normals, paths, manifest_entries, entry_group,
                   temp_docs>>

(***************************************************************************)
(* _bake_normals_from_height on images.  Heights are kept as the 16-bit    *)
(* samples s of the image, the height of line 433 being s / 65535; slopes  *)
(* are kept in units of 1/255, in which a flat field is exact.             *)
(***************************************************************************)
\* line 433: reshape((height, width)) needs height * width samples
Reshapes(samples, height, width) == Len(samples) = height * width

\* line 434: np.gradient needs two samples along each axis
HasGradient(height, width) == height >= 2 /\ width >= 2

\* np.gradient along one axis, times two: the central difference inside,
\* the one-sided difference at the two ends
Gradient2(at, i, n) ==
    IF i = 0 THEN 2 * (at[1] - at[0])
    ELSE IF i = n - 1 THEN 2 * (at[n - 1] - at[n - 2])
    ELSE at[i + 1] - at[i - 1]

RECURSIVE SqrtBetween(_, _, _)
SqrtBetween(n, low, high) ==
    IF low = high THEN low
    ELSE LET mid == (low + high + 1) \div 2
         IN IF mid * mid <= n THEN SqrtBetween(n, mid, high)
            ELSE SqrtBetween(n, low, mid - 1)

\* np.sqrt, to the integer below
Sqrt(n) == SqrtBetween(n, 0, 2048)

\* lines 445-448: (n + 1) * 0.5 * 255, clipped to 0..255 and cut to uint8,
\* of the component part / length
Encode(part, length) ==
    LET value == (255 * (part + length)) \div (2 * length)
    IN IF value < 0 THEN 0 ELSE IF value > 255 THEN 255 ELSE value

\* lines 433-448: the pixel of the normal map at column x of row y
NormalPixel(samples, width, height, x, y, flip_green) ==
    LET row == [k \in 0..(width - 1) |-> samples[y * width + k + 1] \div 257]
        column == [k \in 0..(height - 1) |-> samples[k * width + x + 1] \div 257]
        gx2 == Gradient2(row, x, width)
        gy2 == Gradient2(column, y, height)
        strength == 2
        nx == -((gx2 * strength) \div 2)
        ny == -((gy2 * strength) \div 2)
        nz == 255
        length == Sqrt(nx * nx + ny * ny + nz * nz)
        green == IF flip_green THEN -ny ELSE ny
    IN <<Encode(nx, length), Encode(green, length), Encode(nz, length), 255>>

\* lines 415-459 and 249-251 on the image the render left at
\* temp_height_path
BakeNormalsFromHeight ==
    /\ pc = "Bake"
    /\ call.active
    /\ call.phase = "returned"
    /\ call.result # NonePath
    /\ LET image == QImage(call.result)
           width == image.width
           height == image.height
           samples == Bits(ConvertToFormat(image, "Grayscale16"))
           output_path == OutPath(BaseName \o <<"_", "Normal", ".png">>)
           returns(normal_path) ==
               /\ paths' = [paths EXCEPT !.normal_path = normal_path]
               /\ baked_normals' = (normal_path # NonePath)
               /\ files' = RecordFile(files, "Normal", normal_path)
               /\ call' = NoCall
               /\ pc' = "Roughness"
               /\ UNCHANGED raised
       IN IF image.null
          THEN /\ returns(NonePath)
               /\ disk' = DiskRemove(disk, TmpPath)
               /\ images' = images
               /\ hist' = hist
          ELSE \E numpy \in BOOLEAN :
                 IF ~numpy
                 THEN /\ returns(NonePath)
                      /\ disk' = DiskRemove(disk, TmpPath)
                      /\ images' = images
                      /\ hist' = hist
                 ELSE IF ~Reshapes(samples, height, width) \/ ~HasGradient(height, width)
                 THEN /\ Escape
                      /\ UNCHANGED <<paths, baked_normals, files, images>>
                 ELSE \E saved \in BOOLEAN :
                        /\ returns(output_path)
                        /\ images' =
                             IF saved
                             THEN SaveImage(images, output_path,
                                    MkImage("RGBA8888", width, height,
                                            [i \in 1..(width * height) |->
                                               NormalPixel(samples, width, height,
                                                           (i - 1) % width,
                                                           (i - 1) \div width,
                                                           options.flip_green)]))
                             ELSE images
                        /\ disk' = DiskRemove(IF saved
                                              THEN DiskWrite(disk, output_path, "bake",
                                                             IF options.flip_green
                                                             THEN 1 ELSE 0)
                                              ELSE disk, TmpPath)
                        /\ hist' = hist
                             \cup {Event("baked", "Normal", call.layer, output_path)}
                             \cup (IF saved
                                   THEN {Event("write", "Normal", call.layer, output_path)}
                                   ELSE {})
    /\ UNCHANGED <<manifest_text, doc, options, stack, result, visits, groups, gi,
                   channel_nodes, manifest_entries, entry_group, temp_docs>>

(***************************************************************************)
(* _write_manifest                                                         *)
(***************************************************************************)
\* 'true' if flag else 'false'
TrueFalse(flag) == IF flag THEN "true" ELSE "false"

\* lines 505-509: the lines of one entry
EntryLines(entry) ==
    <<<<"  - name: ">> \o entry.name,
      <<"    bakedNormals: ", TrueFalse(entry.baked_normals)>>,
      <<"    packedORM: ", TrueFalse(entry.packed_orm)>>>>
    \o [k \in 1..Len(entry.files) |->
          <<"    ", entry.files[k].key, ": ">> \o entry.files[k].value]

\* lines 504-509: the lines of the entries, in the order of the list
RECURSIVE EntriesLines(_)
EntriesLines(entries) ==
    IF entries = <<>> THEN <<>>
    ELSE EntryLines(Head(entries)) \o EntriesLines(Tail(entries))

\* lines 503-515: manifest_lines
ManifestLines(opts, entries) ==
    <<<<"materials:">>>>
    \o EntriesLines(entries)
    \o <<<<"options:">>,
         <<"  flipGreen: ", TrueFalse(opts.flip_green)>>,
         <<"  bakeNormalsOnExport: ", TrueFalse(opts.bake_normals)>>,
         <<"  packORM: ", TrueFalse(opts.pack_orm)>>,
         <<"  heightDepth: ", opts.height_depth>>,
         <<"  roughnessDepth: ", opts.roughness_depth>>>>

\* line 517
ManifestPath == OutPath(<<"material.yaml">>)

\* lines 150-151 and 502-519: the entries are written when there are any
WriteManifest ==
    /\ pc = "done"
    /\ manifest_entries # <<>>
    /\ manifest_text' = ManifestLines(options, manifest_entries)
    /\ disk' = DiskWrite(disk, ManifestPath, "manifest", 0)
    /\ pc' = "written"
    /\ UNCHANGED <<images, doc, options, stack, result, visits, groups, gi, channel_nodes,
                   files, baked_normals, paths, call, manifest_entries, entry_group,
                   temp_docs, hist, raised>>

(***************************************************************************)
(* The export run                                                          *)
(***************************************************************************)
Init == \E in \in Inputs : InitWalk(in[1], in[2])

Next ==
    \/ FindPop
    \/ FindReturn
    \/ EnterMaterialGroup
    \/ ReturnEntries
    \/ BaseColorStage
    \/ BaseColorReturn
    \/ HeightStage
    \/ HeightReturn
    \/ NormalStage
    \/ NormalReturn
    \/ BakeReturn
    \/ RoughnessStage
    \/ RoughnessReturn
    \/ MetallicStage
    \/ MetallicReturn
    \/ OcclusionStage
    \/ OcclusionReturn
    \/ PackOrm
    \/ FinishMaterialGroup
    \/ CreateDocument
    \/ PlaceLayerCopy
    \/ ConvertColorSpace
    \/ ExportImage
    \/ WriteManifest

Spec == Init /\ [][Next]_vars

(***************************************************************************)
(* Runs that follow a group name to the file names made of it: one         *)
(* material group of any name with a BaseColor and a Height layer          *)
(***************************************************************************)
\* a letter, a hyphen, an underscore, a blank and a slash
NameChars == {"w", "-", "_", " ", "/"}

Names == UNION {[1..n -> NameChars] : n \in 0..MaxNameLen}

NameDoc(name) ==
    [i \in 0..3 |->
       IF i = 0 THEN RootNode(<<1>>)
       ELSE IF i = 1 THEN MkNode(name, "grouplayer", PyTrue, PyNone, TRUE, <<2, 3>>)
       ELSE IF i = 2 THEN MkNode(<<"BaseColor">>, "paintlayer", PyNone, "BaseColor", TRUE, <<>>)
       ELSE MkNode(<<"Height">>, "paintlayer", PyNone, "Height", TRUE, <<>>)]

InitNames ==
    \E name \in Names :
      \E entries \in {FirstEntries, SecondEntries} :
        InitWalk(NameDoc(name),
                 MkOptions(entries.prefix, FALSE, FALSE, FALSE, entries.hf, entries.rf))

NextNames ==
    \/ FindPop
    \/ FindReturn
    \/ EnterMaterialGroup
    \/ BaseColorStage
    \/ BaseColorReturn
    \/ HeightStage
    \/ HeightReturn
    \/ CreateDocument
    \/ PlaceLayerCopy
    \/ ConvertColorSpace
    \/ ExportImage

SpecNames == InitNames /\ [][NextNames]_vars

(***************************************************************************)
(* The pack and the bake on images: the pure computations of               *)
(* _pack_orm_texture and _bake_normals_from_height, from the point of the  *)
(* run where they are called, on images of every small size                *)
(***************************************************************************)
PixelDoc ==
    [i \in 0..5 |->
       IF i = 0 THEN RootNode(<<1>>)
       ELSE IF i = 1 THEN MkNode(<<"w">>, "grouplayer", PyTrue, PyNone, TRUE, <<2, 3, 4, 5>>)
       ELSE IF i = 2 THEN MkNode(<<"Height">>, "paintlayer", PyNone, "Height", TRUE, <<>>)
       ELSE IF i = 3 THEN MkNode(<<"Roughness">>, "paintlayer", PyNone, "Roughness", TRUE, <<>>)
       ELSE IF i = 4 THEN MkNode(<<"Metallic">>, "paintlayer", PyNone, "Metallic", TRUE, <<>>)
       ELSE MkNode(<<"Occlusion">>, "paintlayer", PyNone, "Occlusion", TRUE, <<>>)]

\* a grayscale image of changing values, and one of a single value
Ramp(format, width, height, first, step) ==
    MkImage(format, width, height, [i \in 1..(width * height) |-> first + step * (i - 1)])

Uniform(format, width, height, value) == Ramp(format, width, height, value, 0)

FileOf(channel) == OutPath(<<"w", "_", channel, ".png">>)

\* the files a pack may find: each of the three readable or not, the
\* metallic and the occlusion image of the roughness image's size or not,
\* and no occlusion file at all
PackInputs ==
    {[occlusion_path |-> op, stored |-> st] :
       op \in {NonePath, FileOf("Occlusion")},
       st \in UNION {
         {r \cup m \cup o :
            r \in {{}, {<<FileOf("Roughness"), Ramp("Grayscale8", w, h, 100, 10)>>}},
            m \in {{}, {<<FileOf("Metallic"), Ramp("Grayscale8", w, h, 20, 5)>>},
                   {<<FileOf("Metallic"), Uniform("Grayscale8", 1, 1, 25)>>}},
            o \in {{}, {<<FileOf("Occlusion"), Ramp("Grayscale8", w, h, 200, 3)>>},
                   {<<FileOf("Occlusion"), Uniform("Grayscale8", 1, 1, 50)>>}}} :
         w \in 1..MaxWidth, h \in 1..MaxHeight}}

\* the files as a store of images
Stored(pairs) ==
    [q \in {pair[1] : pair \in pairs} |-> (CHOOSE pair \in pairs : pair[1] = q)[2]]

\* the run at line 297, Roughness and Metallic exported
InitPack ==
    \E in \in PackInputs :
      /\ (in.occlusion_path = NonePath)
           => FileOf("Occlusion") \notin {pair[1] : pair \in in.stored}
      /\ doc = PixelDoc
      /\ options = MkOptions(<<>>, FALSE, FALSE, TRUE, FirstEntries.hf, FirstEntries.rf)
      /\ pc = "PackOrm"
      /\ stack = <<>>
      /\ result = <<1>>
      /\ visits = [i \in DOMAIN PixelDoc |-> 1]
      /\ groups = <<1>>
      /\ gi = 1
      /\ channel_nodes = CollectChannelNodes(1)
      /\ files = LET main == DictSet(DictSet(DictSet(<<>>, "Height", <<"w", "_", "Height", ".png">>),
                                             "Roughness", <<"w", "_", "Roughness", ".png">>),
                                     "Metallic", <<"w", "_", "Metallic", ".png">>)
                 IN IF in.occlusion_path = NonePath THEN main
                    ELSE DictSet(main, "Occlusion", <<"w", "_", "Occlusion", ".png">>)
      /\ baked_normals = FALSE
      /\ paths = [NoPaths EXCEPT !.height_path = FileOf("Height"),
                                 !.roughness_path = FileOf("Roughness"),
                                 !.metallic_path = FileOf("Metallic"),
                                 !.occlusion_path = in.occlusion_path]
      /\ call = NoCall
      /\ manifest_entries = <<>>
      /\ entry_group = <<>>
      /\ temp_docs = <<>>
      /\ disk = {[path |-> FileOf(c), src |-> c, green_flips |-> 0] :
                   c \in {"Height", "Roughness", "Metallic"}
                         \cup (IF in.occlusion_path = NonePath THEN {} ELSE {"Occlusion"})}
      /\ hist = {}
      /\ raised = FALSE
      /\ manifest_text = <<>>
      /\ images = Stored(in.stored)

\* the height fields a bake may find: flat ones of every small size and
\* value, a sloped one, and a file that cannot be read
HeightFields ==
    {{}} \cup
    UNION {{{<<TmpPath, Uniform("Grayscale16", w, h, v)>>} : v \in {0, 25700, 65535}}
           \cup {{<<TmpPath, Ramp("Grayscale16", w, h, 0, 2570)>>}} :
           w \in 1..MaxWidth, h \in 1..MaxHeight}

\* the run at line 415, the Height layer rendered to the temporary file
InitBake ==
    \E field \in HeightFields, flip_green \in BOOLEAN :
      /\ doc = PixelDoc
      /\ options = MkOptions(<<>>, flip_green, TRUE, FALSE, FirstEntries.hf, FirstEntries.rf)
      /\ pc = "Bake"
      /\ stack = <<>>
      /\ result = <<1>>
      /\ visits = [i \in DOMAIN PixelDoc |-> 1]
      /\ groups = <<1>>
      /\ gi = 1
      /\ channel_nodes = CollectChannelNodes(1)
      /\ files = DictSet(<<>>, "Height", <<"w", "_", "Height", ".png">>)
      /\ baked_normals = FALSE
      /\ paths = [NoPaths EXCEPT !.height_path = FileOf("Height")]
      /\ call = [NewCall(2, "Height", ".png", options.height_depth, TmpPath)
                   EXCEPT !.phase = "returned", !.result = TmpPath]
      /\ manifest_entries = <<>>
      /\ entry_group = <<>>
      /\ temp_docs = <<>>
      /\ disk = {[path |-> FileOf("Height"), src |-> "Height", green_flips |-> 0],
                 [path |-> TmpPath, src |-> "Height", green_flips |-> 0]}
      /\ hist = {}
      /\ raised = FALSE
      /\ manifest_text = <<>>
      /\ images = Stored(field)

InitPixels == InitPack \/ InitBake

NextPixels ==
    \/ PackOrmTexture
    \/ BakeNormalsFromHeight

SpecPixels == InitPixels /\ [][NextPixels]_vars

(***************************************************************************)
(* What the claims speak of, said in terms of the layer tree and of what   *)
(* the run did                                                             *)
(***************************************************************************)
Max(S) == CHOOSE x \in S : \A y \in S : y <= x

\* a node of the group kind whose materialGroup property is truthy
MarkedGroup(n) == doc[n].type = "grouplayer" /\ Truthy(doc[n].materialGroup)

\* the last direct child of g that declares channel c, or NoNode
LastTagged(g, c) ==
    LET kids == doc[g].children
        tagged == {k \in 1..Len(kids) :
                     /\ Truthy(doc[kids[k]].materialChannel)
                     /\ PyStr(doc[kids[k]].materialChannel) = c}
    IN IF tagged = {} THEN NoNode ELSE kids[Max(tagged)]

\* no direct child of g has a truthy materialChannel property
EmptyAssignment(g) ==
    \A k \in 1..Len(doc[g].children) : ~Truthy(doc[doc[g].children[k]].materialChannel)

\* channel c of g has a layer, and the layer is visible
VisibleLayer(g, c) == LastTagged(g, c) # NoNode /\ doc[LastTagged(g, c)].visible

MainChannels == {"BaseColor", "Height", "Normal", "Roughness", "Metallic"}

Stages ==
    {"BaseColor", "Height", "Normal", "Bake", "Roughness", "Metallic", "Occlusion",
     "PackOrm", "Finish"}

Happened(ev, g, c) == \E e \in hist : e.ev = ev /\ e.group = g /\ e.channel = c

\* the layer of channel c of g was handed to _export_channel_layer to be
\* exported under the name of the channel
Rendered(g, c) ==
    \E e \in hist : e.ev = "render" /\ e.group = g /\ e.channel = c /\ e.path = NonePath

\* exportImage returned a falsy value for channel c of g
ExportFailed(g, c) ==
    \E e \in hist : e.ev = "export_failed" /\ e.group = g /\ e.channel = c /\ e.path # TmpPath

\* exportImage wrote the file of channel c of g
Exported(g, c) ==
    \E e \in hist : /\ e.ev = "write" /\ e.group = g /\ e.channel = c
                    /\ e.layer # NoNode /\ e.path.dir = "out"

Finished(g) == Happened("finished", g, "")

InProgress(g) == pc \in Stages /\ gi <= Len(groups) /\ groups[gi] = g

HasEntry(g) == \E i \in 1..Len(entry_group) : entry_group[i] = g

EntryOf(g) == manifest_entries[CHOOSE i \in 1..Len(entry_group) : entry_group[i] = g]

\* the files mapping of g: of its entry, or the one being filled
FilesOf(g) ==
    IF HasEntry(g) THEN EntryOf(g).files ELSE IF InProgress(g) THEN files ELSE <<>>

\* <prefix><slug>_<Channel><ext>
ChannelFileName(g, c) ==
    options.prefix \o Slugify(doc[g].name) \o
    <<"_", c,
      IF c \in {"BaseColor", "Normal", "ORM"} THEN ".png"
      ELSE IF c = "Height" THEN options.height_extension
      ELSE options.roughness_extension>>

(***************************************************************************)
(* C1. During _export_document no layer whose visible() is false is handed *)
(* to _export_channel_layer: every temporary document, and the call in     *)
(* progress, renders a visible layer, the height render of the bake        *)
(* included.                                                               *)
(***************************************************************************)
C1_InvisibleLayerNeverRendered ==
    /\ \A i \in 1..Len(temp_docs) : doc[temp_docs[i].layer].visible
    /\ call.active => doc[call.layer].visible

(***************************************************************************)
(* C2. Every temporary document created by _export_channel_layer is closed *)
(* on every exit of the call, an exception included: whenever no call is   *)
(* in progress (between two channels, at the end of the run, after an      *)
(* exception escaped) no temporary document is open.                       *)
(***************************************************************************)
C2_ContextClosedOnEveryExit ==
    ~call.active => \A i \in 1..Len(temp_docs) : ~temp_docs[i].open

(***************************************************************************)
(* C3. A channel whose exportImage returned a falsy value is absent from   *)
(* the files of its group; the run is never aborted by it (only an         *)
(* exception aborts a run); and when the run is done every group was       *)
(* processed and every other main channel of every processed group was     *)
(* rendered exactly when its layer is visible and is in the files exactly  *)
(* when its own export succeeded.                                          *)
(***************************************************************************)
C3_FailedChannelAbsentOthersProcessed ==
    /\ \A e \in hist :
         (e.ev = "export_failed" /\ e.path # TmpPath) =>
           ~DictHas(FilesOf(e.group), e.channel)
    /\ pc = "aborted" => \E e \in hist : e.ev = "exception"
    /\ pc = "done" =>
         \A i \in 1..Len(groups) :
           LET g == groups[i]
           IN /\ Finished(g) \/ Happened("no_channels", g, "")
              /\ Finished(g) =>
                   \A c \in MainChannels :
                     /\ Rendered(g, c) <=> VisibleLayer(g, c)
                     /\ Rendered(g, c) =>
                          (DictHas(FilesOf(g), c) <=> ~ExportFailed(g, c))
                     /\ (~Rendered(g, c) /\ c # "Normal") => ~DictHas(FilesOf(g), c)

\* a finished run in which one channel failed, another channel of the same
\* group is in its files, and another group has its entry
C3_Witness ==
    /\ pc = "done"
    /\ \E g \in DOMAIN doc, c \in Channels :
         /\ ExportFailed(g, c)
         /\ \E d \in Channels \ {c} : DictHas(FilesOf(g), d)
         /\ \E g2 \in DOMAIN doc \ {g} : HasEntry(g2)

(***************************************************************************)
(* C4. On every finite layer tree _find_material_groups terminates, pops   *)
(* every node exactly once, and returns exactly the nodes of the group     *)
(* kind whose materialGroup property is truthy (the root and nested groups *)
(* included), each once: a set that does not depend on the order of the    *)
(* siblings.                                                               *)
(***************************************************************************)
FindVisitsOnce ==
    /\ \A n \in DOMAIN doc : visits[n] <= 1
    /\ \A i, j \in 1..Len(result) : result[i] = result[j] => i = j
    /\ pc # "find" =>
         /\ \A n \in DOMAIN doc : visits[n] = 1
         /\ {result[i] : i \in 1..Len(result)} = {n \in DOMAIN doc : MarkedGroup(n)}

C4_FindReturnsEveryGroupOnce == []FindVisitsOnce /\ <>(pc # "find")

\* the walk returned the root, a group in it and a group in that group
C4_Witness ==
    /\ pc # "find"
    /\ Len(result) = 3
    /\ doc[RootId].children = <<1>>
    /\ doc[1].children = <<2>>

(***************************************************************************)
(* C5. A material group none of whose direct children has a truthy         *)
(* materialChannel never gets an entry, no temporary document is created   *)
(* for it and no file is written for it; a tree without material groups    *)
(* ends with an empty list and without an exception.                       *)
(***************************************************************************)
C5_EmptyGroupLeavesNoTrace ==
    /\ \A g \in DOMAIN doc :
         (MarkedGroup(g) /\ EmptyAssignment(g)) =>
           /\ ~HasEntry(g)
           /\ \A i \in 1..Len(temp_docs) : temp_docs[i].group # g
           /\ \A e \in hist : e.group = g => e.ev = "no_channels"
    /\ (\A n \in DOMAIN doc : ~MarkedGroup(n)) =>
         /\ pc # "aborted"
         /\ manifest_entries = <<>>
         /\ temp_docs = <<>>
         /\ disk = {}

\* a finished run that skipped a group without channels and listed another
C5_Witness ==
    /\ pc = "done"
    /\ manifest_entries # <<>>
    /\ \E g \in DOMAIN doc :
         MarkedGroup(g) /\ EmptyAssignment(g) /\ Happened("no_channels", g, "")

(***************************************************************************)
(* C6. _bake_normals_from_height is invoked for a group if and only if no  *)
(* Normal layer of the group is visible, bake_normals is set and the group *)
(* has a Height layer; baked_normals is true exactly when the bake         *)
(* returned an output path, and false when a visible Normal layer exists.  *)
(***************************************************************************)
BakeCondition(g) ==
    /\ ~VisibleLayer(g, "Normal")
    /\ options.bake_normals
    /\ LastTagged(g, "Height") # NoNode

PastNormal(g) ==
    \/ Finished(g)
    \/ InProgress(g) /\ pc \in {"Bake", "Roughness", "Metallic", "Occlusion", "PackOrm", "Finish"}

C6_BakeOnlyWhenNormalMissing ==
    \A g \in {n \in DOMAIN doc : MarkedGroup(n)} :
      /\ Happened("bake", g, "Normal") => BakeCondition(g)
      /\ (PastNormal(g) /\ BakeCondition(g)) => Happened("bake", g, "Normal")
      /\ HasEntry(g) => (EntryOf(g).baked_normals <=> Happened("baked", g, "Normal"))
      /\ InProgress(g) => (baked_normals <=> Happened("baked", g, "Normal"))
      /\ (HasEntry(g) /\ VisibleLayer(g, "Normal")) => ~EntryOf(g).baked_normals

\* a listed group whose Normal layer is hidden and whose normals were baked
C6_Witness ==
    /\ pc = "done"
    /\ \E g \in DOMAIN doc :
         /\ HasEntry(g)
         /\ EntryOf(g).baked_normals
         /\ LastTagged(g, "Normal") # NoNode

(***************************************************************************)
(* C7. The ORM pack is attempted if and only if pack_orm is set and both   *)
(* the Roughness and the Metallic channel of the group were exported,      *)
(* whatever the Occlusion layer; without pack_orm there is no ORM file and *)
(* no ORM key; with pack_orm and both inputs readable exactly one          *)
(* <baseName>_ORM.png is produced for the group.                           *)
(***************************************************************************)
PackCondition(g) == options.pack_orm /\ Exported(g, "Roughness") /\ Exported(g, "Metallic")

PastPack(g) == Finished(g) \/ (InProgress(g) /\ pc = "Finish")

OrmWrites(g) == {e \in hist : e.ev = "write" /\ e.group = g /\ e.channel = "ORM"}

PackedWhenDue(g) ==
    /\ Happened("pack", g, "ORM") => PackCondition(g)
    /\ (PastPack(g) /\ PackCondition(g)) => Happened("pack", g, "ORM")
    /\ ~options.pack_orm =>
         /\ OrmWrites(g) = {}
         /\ \A f \in disk : f.src # "ORM"
         /\ ~DictHas(FilesOf(g), "ORM")

\* the claim as it stands: readable inputs are enough for the file
C7_OrmProducedWhenInputsReadable ==
    \A g \in {n \in DOMAIN doc : MarkedGroup(n)} :
      /\ PackedWhenDue(g)
      /\ (PastPack(g) /\ PackCondition(g) /\ ~Happened("pack_unreadable", g, "ORM")) =>
           Cardinality(OrmWrites(g)) = 1

(***************************************************************************)
(* C7, amended. As above, but exactly one <baseName>_ORM.png is produced   *)
(* with pack_orm and both inputs readable only if the save of the packed   *)
(* image succeeds; when it fails no ORM file is produced.                  *)
(***************************************************************************)
C7_OrmProducedWhenSaved ==
    \A g \in {n \in DOMAIN doc : MarkedGroup(n)} :
      /\ PackedWhenDue(g)
      /\ (PastPack(g) /\ PackCondition(g) /\ ~Happened("pack_unreadable", g, "ORM")) =>
           IF Happened("pack_savefail", g, "ORM")
           THEN OrmWrites(g) = {}
           ELSE /\ Cardinality(OrmWrites(g)) = 1
                /\ \A e \in OrmWrites(g) : e.path = OutPath(ChannelFileName(g, "ORM"))

\* a finished group without Occlusion layer whose ORM file was produced
C7_Witness ==
    /\ pc = "done"
    /\ \E g \in DOMAIN doc :
         /\ OrmWrites(g) # {}
         /\ LastTagged(g, "Occlusion") = NoNode
         /\ DictHas(FilesOf(g), "ORM")

(***************************************************************************)
(* C8. For every material group and every one of the six channels whose    *)
(* layer is a tagged, visible direct child and whose export did not fail,  *)
(* the finished run wrote <prefix><slug>_<Channel><ext> and recorded it    *)
(* under the channel name in the files of the group's entry.               *)
(***************************************************************************)
C8_EveryPresentChannelExported ==
    pc = "done" =>
      \A i \in 1..Len(groups), c \in Channels :
        LET g == groups[i]
        IN (VisibleLayer(g, c) /\ ~ExportFailed(g, c)) =>
             /\ DiskHas(OutPath(ChannelFileName(g, c)))
             /\ HasEntry(g)
             /\ DictGet(FilesOf(g), c, <<>>) = ChannelFileName(g, c)

(***************************************************************************)
(* C9. For a document with one material group whose BaseColor, Height,     *)
(* Normal, Roughness and Metallic layers are tagged, visible and exported  *)
(* without failure, bake_normals and pack_orm off, the finished run        *)
(* returns exactly one entry, its files have those five keys, and every    *)
(* file name in it is the base name of a file an export wrote.             *)
(***************************************************************************)
FiveChannelRun ==
    /\ pc = "done"
    /\ Len(groups) = 1
    /\ ~options.bake_normals
    /\ ~options.pack_orm
    /\ \A c \in MainChannels : VisibleLayer(groups[1], c) /\ ~ExportFailed(groups[1], c)

C9_FiveChannelsOneEntry ==
    FiveChannelRun =>
      /\ Len(manifest_entries) = 1
      /\ MainChannels \subseteq DictKeys(manifest_entries[1].files)
      /\ \A k \in 1..Len(manifest_entries[1].files) :
           \E e \in hist :
             /\ e.ev = "write"
             /\ e.path.dir = "out"
             /\ Basename(e.path) = manifest_entries[1].files[k].value
             /\ DiskHas(e.path)

C9_Witness == FiveChannelRun /\ Len(manifest_entries) = 1

(***************************************************************************)
(* C10. _collect_channel_nodes maps each channel name to exactly one node, *)
(* a direct child of the group: children whose materialChannel is missing  *)
(* or falsy are ignored, and of several children that declare the same     *)
(* channel the last one is the one assigned.                               *)
(***************************************************************************)
ResolvedRight(mapping, g) ==
    /\ \A i, j \in 1..Len(mapping) : mapping[i].key = mapping[j].key => i = j
    /\ \A i \in 1..Len(mapping) :
         /\ mapping[i].value = LastTagged(g, mapping[i].key)
         /\ \E k \in 1..Len(doc[g].children) : doc[g].children[k] = mapping[i].value
    /\ \A k \in 1..Len(doc[g].children) :
         LET channel_id == doc[doc[g].children[k]].materialChannel
         IN Truthy(channel_id) => DictHas(mapping, PyStr(channel_id))

C10_LastDirectChildWins ==
    /\ (pc \in Stages /\ gi <= Len(groups)) =>
         channel_nodes # <<>> /\ ResolvedRight(channel_nodes, groups[gi])
    /\ \A e \in hist : e.ev = "no_channels" => EmptyAssignment(e.group)

\* two direct children declare the same channel and the later one is assigned
C10_Witness ==
    /\ pc = "BaseColor"
    /\ \E i, j \in 1..Len(doc[groups[gi]].children) :
         LET kids == doc[groups[gi]].children
         IN /\ i < j
            /\ Truthy(doc[kids[i]].materialChannel)
            /\ doc[kids[i]].materialChannel = doc[kids[j]].materialChannel
            /\ DictGet(channel_nodes, doc[kids[j]].materialChannel, NoNode) = kids[j]

(***************************************************************************)
(* C11. In _export_channel_layer, whenever the conversion of the whole     *)
(* temporary document fails, by raising or by returning False, the         *)
(* conversion of the duplicated layer alone is attempted; no exception     *)
(* escapes, and the call goes on to the export step.  Said of the export   *)
(* step: the document was converted, or the fallback was attempted.        *)
(***************************************************************************)
C11_FallbackWheneverConversionFails ==
    (call.active /\ call.phase = "export") =>
      /\ call.whole \in ConvertOutcomes
      /\ call.whole # "ok" => call.alone \in ConvertOutcomes

(***************************************************************************)
(* C12. Without an override path the file name of a rendered channel is    *)
(* exactly <prefix><slug(group.name)>_<channelName><extension>, where the  *)
(* slug replaces every character that is not alphanumeric, '-' or '_' by   *)
(* '_', strips leading and trailing '_' and is the literal Material when   *)
(* nothing remains; so the slug of every name is non-empty, made of        *)
(* alphanumerics, '-' and '_' only, and its own slug.                      *)
(***************************************************************************)
Min(S) == CHOOSE x \in S : \A y \in S : x <= y

KeptChar(c) == c \in {"w", "d", "r", "P", "M", "a", "t", "e", "i", "l", "7", "-", "_"}

Replaced(name) == [i \in 1..Len(name) |-> IF KeptChar(name[i]) THEN name[i] ELSE "_"]

NotUnderscore(s) == {i \in 1..Len(s) : s[i] # "_"}

ExpectedSlug(name) ==
    LET r == Replaced(name)
    IN IF NotUnderscore(r) = {} THEN <<"M", "a", "t", "e", "r", "i", "a", "l">>
       ELSE SubSeq(r, Min(NotUnderscore(r)), Max(NotUnderscore(r)))

ExpectedFileName(g, c) ==
    options.prefix \o ExpectedSlug(doc[g].name)
    \o <<"_", c, IF c = "Height" THEN options.height_extension ELSE ".png">>

C12_FileNameOfPrefixSlugChannel ==
    /\ \A n \in DOMAIN doc :
         LET slug == Slugify(doc[n].name)
         IN /\ slug = ExpectedSlug(doc[n].name)
            /\ slug # <<>>
            /\ \A i \in 1..Len(slug) : KeptChar(slug[i])
            /\ Slugify(slug) = slug
    /\ \A e \in hist :
         (e.ev \in {"write", "export_failed"} /\ e.layer # NoNode /\ e.path # TmpPath) =>
           e.path = OutPath(ExpectedFileName(e.group, e.channel))
    /\ (call.active /\ call.phase = "returned" /\ call.result # NonePath) =>
         call.result = OutPath(ExpectedFileName(groups[gi], call.channel_name))

\* a file was written for a group whose name had characters replaced and
\* underscores stripped at both ends
C12_Witness ==
    \E e \in hist :
      LET name == doc[e.group].name
      IN /\ e.ev = "write"
         /\ Len(name) = 3
         /\ name[1] = "_"
         /\ name[3] = "/"
         /\ ExpectedSlug(name) = <<name[2]>>
         /\ DiskHas(OutPath(options.prefix \o <<name[2], "_", e.channel, ".png">>))

(***************************************************************************)
(* C13. Two runs over the same layer tree with the same options and the    *)
(* same collaborator outcomes return the same list of entries and write    *)
(* the same manifest text: the list and the text are a function of the     *)
(* tree, the options and the outcomes.  The groups come in the order of    *)
(* the traversal, each entry lists its files in the order they were        *)
(* produced (not sorted), and the text is laid out from the entries and    *)
(* the options alone.                                                      *)
(***************************************************************************)
Reverse(s) == [i \in 1..Len(s) |-> s[Len(s) + 1 - i]]

\* the order in which the traversal meets the nodes: a node, then the
\* subtrees of its children, the last child first
RECURSIVE TraversalFrom(_), TraversalOfAll(_)
TraversalFrom(n) == <<n>> \o TraversalOfAll(Reverse(doc[n].children))

TraversalOfAll(nodes) ==
    IF nodes = <<>> THEN <<>>
    ELSE TraversalFrom(Head(nodes)) \o TraversalOfAll(Tail(nodes))

\* the outcomes of the collaborators decide which files a group produced
Produced(g, c) ==
    CASE c = "Normal" -> Exported(g, c) \/ Happened("baked", g, c)
      [] c = "ORM" -> OrmWrites(g) # {}
      [] OTHER -> Exported(g, c)

ProductionOrder ==
    <<"BaseColor", "Height", "Normal", "Roughness", "Metallic", "Occlusion", "ORM">>

FilesInOrder(g) ==
    LET made == SelectSeq(ProductionOrder, LAMBDA c : Produced(g, c))
    IN [k \in 1..Len(made) |-> [key |-> made[k], value |-> ChannelFileName(g, made[k])]]

GroupsInOrder ==
    SelectSeq(TraversalFrom(RootId), LAMBDA n : MarkedGroup(n) /\ FilesInOrder(n) # <<>>)

EntriesInOrder ==
    [i \in 1..Len(GroupsInOrder) |->
       [name |-> ExpectedSlug(doc[GroupsInOrder[i]].name),
        files |-> FilesInOrder(GroupsInOrder[i]),
        baked_normals |-> Happened("baked", GroupsInOrder[i], "Normal"),
        packed_orm |-> OrmWrites(GroupsInOrder[i]) # {}]]

\* the line of the text at which entry i starts
RECURSIVE EntryOffset(_, _)
EntryOffset(entries, i) ==
    IF i = 1 THEN 1 ELSE EntryOffset(entries, i - 1) + 3 + Len(entries[i - 1].files)

TextLaidOut(text, entries, opts) ==
    LET end == EntryOffset(entries, Len(entries) + 1)
        Flag(b) == IF b THEN "true" ELSE "false"
    IN /\ Len(text) = end + 6
       /\ text[1] = <<"materials:">>
       /\ \A i \in 1..Len(entries) :
            LET at == EntryOffset(entries, i)
            IN /\ text[at + 1] = <<"  - name: ">> \o entries[i].name
               /\ text[at + 2] = <<"    bakedNormals: ", Flag(entries[i].baked_normals)>>
               /\ text[at + 3] = <<"    packedORM: ", Flag(entries[i].packed_orm)>>
               /\ \A k \in 1..Len(entries[i].files) :
                    text[at + 3 + k] =
                      <<"    ", entries[i].files[k].key, ": ">> \o entries[i].files[k].value
       /\ text[end + 1] = <<"options:">>
       /\ text[end + 2] = <<"  flipGreen: ", Flag(opts.flip_green)>>
       /\ text[end + 3] = <<"  bakeNormalsOnExport: ", Flag(opts.bake_normals)>>
       /\ text[end + 4] = <<"  packORM: ", Flag(opts.pack_orm)>>
       /\ text[end + 5] = <<"  heightDepth: ", opts.height_depth>>
       /\ text[end + 6] = <<"  roughnessDepth: ", opts.roughness_depth>>

C13_ManifestFunctionOfInputs ==
    /\ pc \in {"done", "written"} =>
         /\ entry_group = GroupsInOrder
         /\ manifest_entries = EntriesInOrder
    /\ pc = "written" => TextLaidOut(manifest_text, EntriesInOrder, options)
    /\ pc # "written" => manifest_text = <<>>

\* a manifest of two groups, the later sibling first, was written
C13_Witness ==
    /\ pc = "written"
    /\ entry_group = <<2, 1>>
    /\ Len(manifest_entries[1].files) = 2
    /\ Len(manifest_text) = 16

\* the gray value an input image has for pixel i of a width x height
\* texture: its own pixel when it has that size, else its single value
GrayAt(image, i, width, height) ==
    IF image.width = width /\ image.height = height THEN image.px[i] ELSE image.px[1]

\* the pack has been called on the three channel files and is over
Packed == doc = PixelDoc /\ options.pack_orm /\ pc # "PackOrm"

\* what C14 says of a finished pack, exceptions aside
PackedAsSaid ==
    LET roughness == QImage(paths.roughness_path)
        metallic == QImage(paths.metallic_path)
        occlusion == IF paths.occlusion_path = NonePath THEN NullImage
                     ELSE QImage(paths.occlusion_path)
        orm_path == OutPath(<<"w", "_", "ORM", ".png">>)
        width == roughness.width
        height == roughness.height
    IN IF roughness.null \/ metallic.null
       THEN orm_path \notin DOMAIN images /\ ~DictHas(files, "ORM")
       ELSE orm_path \in DOMAIN images =>
              LET orm == images[orm_path]
              IN /\ orm.format = "RGBA8888"
                 /\ orm.width = width
                 /\ orm.height = height
                 /\ Len(orm.px) = width * height
                 /\ \A i \in 1..(width * height) :
                      orm.px[i] = <<IF occlusion.null THEN 255
                                    ELSE GrayAt(occlusion, i, width, height),
                                    roughness.px[i],
                                    GrayAt(metallic, i, width, height),
                                    255>>

\* C14: for roughness, metallic and occlusion images of any width and
\* height, _pack_orm_texture produces an RGBA image of the roughness
\* image's dimensions whose every pixel has R = the occlusion gray value
\* (255 when the occlusion image is absent or unreadable), G = the
\* roughness gray value, B = the metallic gray value and A = 255, and it
\* returns failure and writes no file when the roughness or the metallic
\* image is unreadable: no call ends in an exception.
C14_OrmPackedFromChannels == Packed => (~raised /\ PackedAsSaid)

\* the bake has been called on a readable flat height field and is over
BakedFlat ==
    /\ doc = PixelDoc
    /\ options.bake_normals
    /\ pc # "Bake"
    /\ ~QImage(TmpPath).null
    /\ \A i \in DOMAIN QImage(TmpPath).px : QImage(TmpPath).px[i] = QImage(TmpPath).px[1]

\* what C15 says of the normal map of a flat field, exceptions aside
FlatAsSaid ==
    LET output_path == OutPath(<<"w", "_", "Normal", ".png">>)
    IN output_path \in DOMAIN images =>
         /\ images[output_path].width = QImage(TmpPath).width
         /\ images[output_path].height = QImage(TmpPath).height
         /\ \A i \in DOMAIN images[output_path].px :
              LET pixel == images[output_path].px[i]
              IN /\ pixel[1] \in {127, 128}
                 /\ pixel[2] \in {127, 128}
                 /\ pixel[3] = 255
                 /\ pixel[4] = 255

\* C15: for a constant height field of any width, height and value, with
\* or without the green flip, baking completes without error and every
\* pixel of the baked normal map has R and G in {127, 128}, B = 255 and
\* alpha = 255.
C15_FlatFieldBakesFlatNormal == BakedFlat => (~raised /\ FlatAsSaid)

\* the nodes the render contexts hold
ContextNodes == {<<i, k>> \in (DOMAIN temp_docs) \X (1..1) : k \in DOMAIN temp_docs[i].nodes}

\* C16: an export run leaves the source layer tree unchanged: no step of
\* the run changes a node of the tree, and the only node ever added to, and
\* converted in, a render context is a duplicate of the layer the context
\* was created for.
C16_SourceTreeUnchanged ==
    /\ [][doc' = doc]_vars
    /\ [](\A at \in ContextNodes :
            /\ temp_docs[at[1]].nodes[at[2]].copy
            /\ temp_docs[at[1]].nodes[at[2]].of = temp_docs[at[1]].layer
            /\ Len(temp_docs[at[1]].nodes) = 1)

\* a duplicate has been converted in its render context, after the
\* conversion of the whole context raised
C16_Witness ==
    /\ call.active
    /\ call.phase = "export"
    /\ call.whole = "raise"
    /\ call.alone = "ok"
    /\ temp_docs[CurrentDoc].nodes = <<Duplicate(call.layer)>>

\* the files written to the output directory
OutputWrites == {e \in hist : e.ev = "write" /\ e.path.dir = "out"}

\* C17: no output path is written twice by one run: the writes of distinct
\* (group, channel) pairs go to distinct paths.
C17_DistinctPairsDistinctPaths ==
    \A e1 \in OutputWrites :
      \A e2 \in OutputWrites :
        (e1.path = e2.path) => (e1.group = e2.group /\ e1.channel = e2.channel)

\* the place of a channel's render in the fixed order of a group; the bake
\* renders the Height layer in the place of Normal
ChannelRank(name) ==
    CASE name = "BaseColor" -> 1
      [] name = "Height" -> 2
      [] name = "Normal" -> 3
      [] name = "Roughness" -> 4
      [] name = "Metallic" -> 5
      [] name = "Occlusion" -> 6

\* the place of a group in the order the run takes the groups in
GroupRank(g) == Min({k \in DOMAIN groups : groups[k] = g})

\* context i was created, and done with, before context j
InOrder(i, j) ==
    LET first == temp_docs[i]
        second == temp_docs[j]
    IN \/ GroupRank(first.group) < GroupRank(second.group)
       \/ /\ first.group = second.group
          /\ \/ ChannelRank(first.name) < ChannelRank(second.name)
             \/ first.name = "Height" /\ second.name = "Height" /\ j = i + 1

\* C18: at every point of an export run at most one render context is
\* open: every context but the last one created has received exactly one
\* duplicate of its layer, has been exported and is closed, and the
\* contexts are created in the order of the groups and, within a group, in
\* the order BaseColor, Height, Normal or bake, Roughness, Metallic,
\* Occlusion.
C18_OneContextAtATime ==
    /\ Cardinality({i \in DOMAIN temp_docs : temp_docs[i].open}) <= 1
    /\ \A i \in DOMAIN temp_docs :
         /\ Len(temp_docs[i].nodes) <= 1
         /\ i < Len(temp_docs) =>
              /\ ~temp_docs[i].open
              /\ temp_docs[i].nodes = <<Duplicate(temp_docs[i].layer)>>
              /\ \E e \in hist :
                   /\ e.ev \in {"write", "export_failed"}
                   /\ e.group = temp_docs[i].group
                   /\ e.channel = temp_docs[i].name
                   /\ e.layer = temp_docs[i].layer
              /\ InOrder(i, i + 1)

\* a third context is open with its duplicate in it, for another group
\* than the first context, which is closed
C18_Witness ==
    /\ Len(temp_docs) >= 3
    /\ temp_docs[Len(temp_docs)].open
    /\ Len(temp_docs[Len(temp_docs)].nodes) = 1
    /\ ~temp_docs[1].open
    /\ temp_docs[1].group # temp_docs[Len(temp_docs)].group

\* C19: every ManifestEntry of the run is consistent in itself: its files
\* mapping is not empty, packed_orm is true exactly when files has the key
\* ORM, baked_normals is true only when files has the key Normal, and the
\* key ORM is there only with the keys Roughness and Metallic.
C19_EntriesConsistent ==
    \A k \in DOMAIN manifest_entries :
      LET entry == manifest_entries[k]
      IN /\ entry.files # <<>>
         /\ entry.packed_orm <=> DictHas(entry.files, "ORM")
         /\ entry.baked_normals => DictHas(entry.files, "Normal")
         /\ DictHas(entry.files, "ORM") =>
              (DictHas(entry.files, "Roughness") /\ DictHas(entry.files, "Metallic"))

\* the run has returned an entry with a baked normal map and a packed
\* texture
C19_Witness ==
    /\ pc = "done"
    /\ \E k \in DOMAIN manifest_entries :
         manifest_entries[k].packed_orm /\ manifest_entries[k].baked_normals

\* the Normal files the run has produced, rendered from a Normal layer or
\* baked
NormalOutputs == {f \in disk : f.path.dir = "out" /\ f.src \in {"Normal", "bake"}}

\* C20: when the run has returned, the green channel of every Normal
\* output it produced has been inverted exactly once if flip_green is set
\* and never if it is not, whether the output was rendered from a Normal
\* layer and flipped in its file or baked and flipped in the bake.
C20_GreenFlippedExactlyOnce ==
    (pc = "done") =>
      \A f \in NormalOutputs : f.green_flips = (IF options.flip_green THEN 1 ELSE 0)
====
